---- MODULE Spec2Model ----
(***************************************************************************)
(* The two formatter scripts of slack-utils:                               *)
(*   scripts/foc-md-formatter.py  (the archive variant, "foc")             *)
(*   scripts/format-links.py      (the plain variant,   "plain")           *)
(* One run of main() is one behaviour: stdin is read, parsed, dispatched   *)
(* on headers.action, and ends in sys.exit.                                *)
(*                                                                         *)
(* Text is a sequence of fragments.  Text the code searches or slices      *)
(* (message_ts, id, name, title, the attachment urls) is one character per *)
(* fragment; text it only compares or copies whole (action names, channel  *)
(* names, mimetypes, the literals of the source) is kept as one fragment.  *)
(***************************************************************************)
EXTENDS Integers, Sequences, FiniteSets, TLC

VARIABLES
    script,      \* which script runs: "foc" or "plain"
    verbose,     \* args.verbose
    stdin,       \* the content of standard input, a sequence of tokens
    doc,         \* the JSON document the token "DOC" of stdin stands for
    pc,          \* position of main()
    input_data,  \* local of main
    request,     \* local of main
    headers,     \* local of main
    body,        \* local of main
    action,      \* local of main
    response,    \* local of main
    exc,         \* the exception being propagated to the handlers of main
    stdout,      \* what was printed to sys.stdout, one entry per print
    stderr,      \* what was printed to sys.stderr, one entry per print
    status,      \* the exit status, NotExited while the process runs
    called,      \* the formatter functions invoked so far, in order
    loads        \* the number of json.loads calls made so far

vars == <<script, verbose, stdin, doc, pc, input_data, request, headers, body,
          action, response, exc, stdout, stderr, status, called, loads>>

----------------------------------------------------------------------------
(* Python values that json.loads can produce *)

None     == [t |-> "null", v |-> <<>>]
Str(s)   == [t |-> "str",  v |-> s]
Num(s)   == [t |-> "num",  v |-> s]    \* an int, v its decimal digits
List(s)  == [t |-> "list", v |-> s]
Dict(m)  == [t |-> "dict", v |-> m]    \* m a function from keys to values
EmptyDict == Dict(<<>>)

IsStr(x) == x.t = "str"

\* bool(x) as the `or` chains of the formatters evaluate it
Truthy(x) ==
    CASE x.t = "null" -> FALSE
      [] x.t = "str"  -> x.v # <<>>
      [] x.t = "num"  -> x.v # <<"0">>
      [] x.t = "list" -> x.v # <<>>
      [] x.t = "dict" -> DOMAIN x.v # {}

\* a or b
Or(a, b) == IF Truthy(a) THEN a ELSE b

\* d.get(k) and d.get(k, default) on a dict d
Get(d, k) == IF k \in DOMAIN d.v THEN d.v[k] ELSE None
GetDefault(d, k, default) == IF k \in DOMAIN d.v THEN d.v[k] ELSE default

\* str(x) as an f-string renders it
Format(x) ==
    CASE x.t = "null" -> <<"None">>
      [] x.t = "str"  -> x.v
      [] x.t = "num"  -> x.v
      [] x.t = "list" -> <<"[">> \o x.v \o <<"]">>
      [] x.t = "dict" -> <<"{...}">>

----------------------------------------------------------------------------
(* str operations *)

Min(a, b) == IF a < b THEN a ELSE b
Max(a, b) == IF a > b THEN a ELSE b

\* s[:n]
Prefix(s, n) == SubSeq(s, 1, Min(n, Len(s)))
\* s[i-1:] with i counted from 1
From(s, i) == SubSeq(s, i, Len(s))

\* c in s
Contains(s, c) == \E i \in 1..Len(s) : s[i] = c

\* s.find(c) and s.rfind(c), counted from 1; 0 when c does not occur
RECURSIVE FindFrom(_, _, _)
FindFrom(s, c, i) ==
    IF i > Len(s) THEN 0
    ELSE IF s[i] = c THEN i ELSE FindFrom(s, c, i + 1)
Find(s, c) == FindFrom(s, c, 1)

RECURSIVE RFindFrom(_, _, _)
RFindFrom(s, c, i) ==
    IF i < 1 THEN 0
    ELSE IF s[i] = c THEN i ELSE RFindFrom(s, c, i - 1)
RFind(s, c) == RFindFrom(s, c, Len(s))

\* s.split(".")[1], for s that contains a "."
SplitSecond(s) ==
    LET rest == From(s, Find(s, ".") + 1)
        stop == Find(rest, ".")
    IN  IF stop = 0 THEN rest ELSE SubSeq(rest, 1, stop - 1)

\* the characters str.strip() and float() remove: a superset of JSON whitespace
PyWhitespace == {" ", "\t", "\n", "\r", "VT"}

\* strip() removing JSON whitespace only
RECURSIVE Strip_JsonOnly(_)
Strip_JsonOnly(s) ==
    IF s # <<>> /\ Head(s) \in {" ", "\t", "\n", "\r"} THEN Strip_JsonOnly(Tail(s))
    ELSE IF s # <<>> /\ s[Len(s)] \in {" ", "\t", "\n", "\r"}
    THEN Strip_JsonOnly(SubSeq(s, 1, Len(s) - 1))
    ELSE s

RECURSIVE LStrip(_)
LStrip(s) ==
    IF s # <<>> /\ Head(s) \in PyWhitespace THEN LStrip(Tail(s)) ELSE s
RECURSIVE RStrip(_)
RStrip(s) ==
    IF s # <<>> /\ s[Len(s)] \in PyWhitespace
    THEN RStrip(SubSeq(s, 1, Len(s) - 1)) ELSE s
Strip(s) == LStrip(RStrip(s))

DigitChars == <<"0", "1", "2", "3", "4", "5", "6", "7", "8", "9">>
IsDigit(c) == \E i \in 1..10 : DigitChars[i] = c
DigitVal(c) == (CHOOSE i \in 1..10 : DigitChars[i] = c) - 1
AllDigits(s) == \A i \in 1..Len(s) : IsDigit(s[i])

\* str(n) for an int n >= 0
RECURSIVE IntToStr(_)
IntToStr(n) ==
    IF n < 10 THEN <<DigitChars[n + 1]>>
    ELSE IntToStr(n \div 10) \o <<DigitChars[(n % 10) + 1]>>

\* f"{n:02d}" for an int n >= 0
Pad2(n) == IF n < 10 THEN <<"0">> \o IntToStr(n) ELSE IntToStr(n)

----------------------------------------------------------------------------
(* float(ts): the decimal text accepted by float(), kept exact.             *)
(* The result is the sign, the digits of the mantissa and the position of   *)
(* the decimal point among them after the exponent is applied.              *)

\* a digit part: digits, with single underscores allowed between digits
DigitPart(s) ==
    \A i \in 1..Len(s) :
        \/ IsDigit(s[i])
        \/ /\ s[i] = "_"
           /\ i > 1 /\ i < Len(s)
           /\ IsDigit(s[i - 1]) /\ IsDigit(s[i + 1])

\* the digits of a digit part, its underscores dropped
RECURSIVE DropUnderscores(_)
DropUnderscores(s) ==
    IF s = <<>> THEN <<>>
    ELSE IF Head(s) = "_" THEN DropUnderscores(Tail(s))
    ELSE <<Head(s)>> \o DropUnderscores(Tail(s))

\* int(s) for a digit sequence, saturating at 1000 (only exponents use it)
RECURSIVE SmallInt(_, _)
SmallInt(s, acc) ==
    IF s = <<>> THEN acc
    ELSE SmallInt(Tail(s), Min(1000, acc * 10 + DigitVal(Head(s))))

FloatError == [ok |-> FALSE, kind |-> "ValueError", neg |-> FALSE,
               digits |-> <<>>, point |-> 0]

PyFloatStr(s) ==
    LET t    == Strip(s)
        sgn  == t # <<>> /\ Head(t) \in {"+", "-"}
        neg  == sgn /\ Head(t) = "-"
        u    == IF sgn THEN Tail(t) ELSE t
        epos == IF Find(u, "e") # 0 THEN Find(u, "e") ELSE Find(u, "E")
        mant == IF epos = 0 THEN u ELSE SubSeq(u, 1, epos - 1)
        ex   == IF epos = 0 THEN <<>> ELSE From(u, epos + 1)
        esgn == ex # <<>> /\ Head(ex) \in {"+", "-"}
        edig == IF esgn THEN Tail(ex) ELSE ex
        dot  == Find(mant, ".")
        ip   == IF dot = 0 THEN mant ELSE SubSeq(mant, 1, dot - 1)
        fp   == IF dot = 0 THEN <<>> ELSE From(mant, dot + 1)
        e    == IF epos = 0 THEN 0
                ELSE IF esgn /\ Head(ex) = "-" THEN 0 - SmallInt(edig, 0)
                ELSE SmallInt(edig, 0)
    IN  IF u \in {<<"n", "a", "n">>}
        THEN [ok |-> TRUE, kind |-> "nan", neg |-> neg, digits |-> <<>>, point |-> 0]
        ELSE IF u \in {<<"i", "n", "f">>,
                       <<"i", "n", "f", "i", "n", "i", "t", "y">>}
        THEN [ok |-> TRUE, kind |-> "inf", neg |-> neg, digits |-> <<>>, point |-> 0]
        ELSE IF /\ DigitPart(ip) /\ DigitPart(fp)
                /\ Len(ip) + Len(fp) >= 1
                /\ epos # 0 => (edig # <<>> /\ DigitPart(edig))
        THEN [ok |-> TRUE, kind |-> "finite", neg |-> neg,
              digits |-> DropUnderscores(ip) \o DropUnderscores(fp),
              point |-> Len(DropUnderscores(ip)) + e]
        ELSE FloatError

\* float(x) for any value x: text is parsed, an int converts, the rest raise
PyFloat(x) ==
    CASE x.t = "str" -> PyFloatStr(x.v)
      [] x.t = "num" -> [ok |-> TRUE, kind |-> "finite", neg |-> FALSE,
                          digits |-> x.v, point |-> Len(x.v)]
      [] OTHER       -> [FloatError EXCEPT !.kind = "TypeError"]

----------------------------------------------------------------------------
(* datetime.fromtimestamp(unix_ts, tz=timezone.utc) and the date arithmetic *)
(* of datetime.  A datetime is [days, sod]: days since 1970-01-01 and the   *)
(* second of that day.  The whole second is the floor of the timestamp,     *)
(* which is exact for text with at most six fractional digits (datetime     *)
(* keeps microseconds).                                                     *)

SecondsPerDay == 86400
\* date(1970, 1, 1).toordinal()
EpochOrdinal == 719163
\* date.max.toordinal(), 9999-12-31
MaxOrdinal == 3652059

RECURSIVE Zeros(_)
Zeros(n) == IF n <= 0 THEN <<>> ELSE <<"0">> \o Zeros(n - 1)

\* the digits before the decimal point
IntDigits(f) ==
    IF f.point <= 0 THEN <<>>
    ELSE IF f.point <= Len(f.digits) THEN SubSeq(f.digits, 1, f.point)
    ELSE f.digits \o Zeros(Min(f.point - Len(f.digits), 14))

\* whether a non-zero digit follows the decimal point
FracNonZero(f) ==
    \E i \in (Max(f.point, 0) + 1)..Len(f.digits) : f.digits[i] # "0"

\* divmod(int(digits), 86400), computed digit by digit as <<days, rem>>; the
\* day count stops growing once it has left the range of datetime
RECURSIVE DivModDay(_, _, _)
DivModDay(s, days, rem) ==
    IF s = <<>> THEN <<days, rem>>
    ELSE DivModDay(Tail(s),
                   Min(days * 10 + ((rem * 10 + DigitVal(Head(s))) \div SecondsPerDay),
                       10 * MaxOrdinal),
                   (rem * 10 + DigitVal(Head(s))) % SecondsPerDay)

DateTimeError(kind) == [ok |-> FALSE, kind |-> kind, days |-> 0, sod |-> 0]

FromTimestamp(f) ==
    IF ~f.ok THEN DateTimeError(f.kind)
    ELSE IF f.kind = "nan" THEN DateTimeError("ValueError")
    ELSE IF f.kind = "inf" THEN DateTimeError("OverflowError")
    ELSE
    LET q    == DivModDay(IntDigits(f), 0, 0)
        \* a negative timestamp with a fraction lies in the second below
        m    == IF f.neg /\ FracNonZero(f) THEN q[2] + 1 ELSE q[2]
        md   == IF m = SecondsPerDay THEN q[1] + 1 ELSE q[1]
        mr   == IF m = SecondsPerDay THEN 0 ELSE m
        days == IF ~f.neg THEN q[1]
                ELSE IF mr = 0 THEN 0 - md ELSE 0 - md - 1
        sod  == IF ~f.neg THEN q[2]
                ELSE IF mr = 0 THEN 0 ELSE SecondsPerDay - mr
    IN  IF days + EpochOrdinal < 1 \/ days + EpochOrdinal > MaxOrdinal
        THEN DateTimeError("OverflowError")
        ELSE [ok |-> TRUE, kind |-> "datetime", days |-> days, sod |-> sod]

IsLeap(y) == y % 4 = 0 /\ (y % 100 # 0 \/ y % 400 = 0)

DaysInMonth(y, m) ==
    IF m = 2 THEN (IF IsLeap(y) THEN 29 ELSE 28)
    ELSE IF m \in {4, 6, 9, 11} THEN 30 ELSE 31

RECURSIVE DaysBeforeMonth(_, _)
DaysBeforeMonth(y, m) ==
    IF m <= 1 THEN 0 ELSE DaysBeforeMonth(y, m - 1) + DaysInMonth(y, m - 1)

DaysBeforeYear(year) ==
    LET y == year - 1
    IN  y * 365 + (y \div 4) - (y \div 100) + (y \div 400)

\* date(y, m, d).toordinal()
Ymd2Ord(y, m, d) == DaysBeforeYear(y) + DaysBeforeMonth(y, m) + d

\* date.fromordinal(n), as [year, month, day]
Ord2Ymd(ordinal) ==
    LET n0   == ordinal - 1
        n400 == n0 \div 146097
        r400 == n0 % 146097
        n100 == r400 \div 36524
        r100 == r400 % 36524
        n4   == r100 \div 1461
        r4   == r100 % 1461
        n1   == r4 \div 365
        n    == r4 % 365
        year == n400 * 400 + 1 + n100 * 100 + n4 * 4 + n1
        leap == n1 = 3 /\ (n4 # 24 \/ n100 = 3)
        mth  == (n + 50) \div 32
        prec == DaysBeforeMonth(IF leap THEN 4 ELSE 1, mth)
        back == prec > n
        month == IF back THEN mth - 1 ELSE mth
        preceding == IF back
                     THEN prec - DaysInMonth(IF leap THEN 4 ELSE 1, mth - 1)
                     ELSE prec
    IN  IF n1 = 4 \/ n100 = 4
        THEN [year |-> year - 1, month |-> 12, day |-> 31]
        ELSE [year |-> year, month |-> month, day |-> n - preceding + 1]

\* the calendar fields of a datetime
DtYmd(dt)    == Ord2Ymd(dt.days + EpochOrdinal)
DtHour(dt)   == dt.sod \div 3600
DtMinute(dt) == (dt.sod % 3600) \div 60
DtSecond(dt) == dt.sod % 60

\* _isoweek1monday(year): the ordinal of the Monday that starts ISO week 1
IsoWeek1Monday(year) ==
    LET firstday     == Ymd2Ord(year, 1, 1)
        firstweekday == (firstday + 6) % 7
        week1monday  == firstday - firstweekday
    IN  IF firstweekday > 3 THEN week1monday + 7 ELSE week1monday

\* dt.isocalendar()[1]
IsoCalendarWeek(dt) ==
    LET ymd   == DtYmd(dt)
        today == dt.days + EpochOrdinal
        diff  == today - IsoWeek1Monday(ymd.year)
        week  == IF diff < 0 THEN 0 - 1 ELSE diff \div 7
    IN  IF week < 0
        THEN ((today - IsoWeek1Monday(ymd.year - 1)) \div 7) + 1
        ELSE IF week >= 52 /\ today >= IsoWeek1Monday(ymd.year + 1)
        THEN 1
        ELSE week + 1

----------------------------------------------------------------------------
(* The formatter functions.  Each yields either a returned response or a    *)
(* raised exception, together with the lines it printed to stderr first.    *)

Return(resp, lines) == [ok |-> TRUE,  response |-> resp, err |-> lines, exc |-> "none"]
Raise(kind, lines)  == [ok |-> FALSE, response |-> <<>>, err |-> lines, exc |-> kind]

IsDict(x) == x.t = "dict"

\* url[:50] inside an f-string: text is sliced, None and int are not subscriptable
Slice50Ok(x) == x.t \in {"str", "list"}
Slice50(x)   == Prefix(x.v, 50)

(* ---- scripts/foc-md-formatter.py ---- *)

ts_to_datetime(ts) == FromTimestamp(PyFloat(ts))

\* the week counted from 1 January, not the ISO week
get_iso_week_FromJan1(dt) ==
    ((dt.days + EpochOrdinal - Ymd2Ord(DtYmd(dt).year, 1, 1)) \div 7) + 1

get_iso_week(dt) == IsoCalendarWeek(dt)

\* dt.strftime("%Y-%m-%dT%H:%M:%S"); %Y prints the year without padding
Strftime(dt) ==
    IntToStr(DtYmd(dt).year) \o <<"-">> \o Pad2(DtYmd(dt).month) \o <<"-">>
        \o Pad2(DtYmd(dt).day) \o <<"T">> \o Pad2(DtHour(dt)) \o <<":">>
        \o Pad2(DtMinute(dt)) \o <<":">> \o Pad2(DtSecond(dt))

\* lines 71-80: the anchor, for message_ts a str
IsoTimestamp(dt, message_ts) ==
    IF Contains(message_ts, ".")
    THEN Strftime(dt) \o <<".">> \o Prefix(SplitSecond(message_ts), 3) \o <<"Z">>
    ELSE Strftime(dt) \o <<".", "0", "0", "0", "Z">>

WeeklyBase == <<"https://history.futureofcoding.org/history/weekly/">>
PermalinkLabel == <<"U+1F9F5", "conversation">>

Foc_format_permalink(h, b, v) ==
    LET channel_name == GetDefault(h, "channel_name", Str(<<"general">>))
        message_ts   == GetDefault(h, "message_ts", Str(<<>>))
        dt           == ts_to_datetime(message_ts)
        year         == DtYmd(dt).year
        month        == Pad2(DtYmd(dt).month)
        week         == get_iso_week(dt)
        iso_timestamp == IsoTimestamp(dt, message_ts.v)
        url == WeeklyBase \o IntToStr(year) \o <<"/">> \o month \o <<"/", "W">>
                 \o IntToStr(week) \o <<"/">> \o Format(channel_name)
                 \o <<".html", "#">> \o iso_timestamp
        log == IF v
               THEN << <<"[format-permalink] channel=">> \o Format(channel_name)
                          \o <<", ts=">> \o Format(message_ts),
                       <<"[format-permalink] year=">> \o IntToStr(year)
                          \o <<", month=">> \o month \o <<", week=W">> \o IntToStr(week),
                       <<"[format-permalink] iso_timestamp=">> \o iso_timestamp >>
               ELSE <<>>
    IN  IF ~dt.ok THEN Raise(dt.kind, <<>>)
        \* "." in message_ts, for message_ts an int
        ELSE IF ~IsStr(message_ts) THEN Raise("TypeError", <<>>)
        ELSE Return([label |-> Str(PermalinkLabel), url |-> Str(url)], log)

ExtMap ==
    [m \in {"video/mp4", "video/quicktime", "image/png", "image/jpeg",
            "image/gif", "audio/mp3", "audio/mpeg", "application/pdf"} |->
        CASE m = "video/mp4"       -> <<".", "m", "p", "4">>
          [] m = "video/quicktime" -> <<".", "m", "o", "v">>
          [] m = "image/png"       -> <<".", "p", "n", "g">>
          [] m = "image/jpeg"      -> <<".", "j", "p", "g">>
          [] m = "image/gif"       -> <<".", "g", "i", "f">>
          [] m = "audio/mp3"       -> <<".", "m", "p", "3">>
          [] m = "audio/mpeg"      -> <<".", "m", "p", "3">>
          [] m = "application/pdf" -> <<".", "p", "d", "f">>]

\* ext_map.get(mimetype, "")
ExtMapGet(mimetype) ==
    IF IsStr(mimetype) /\ Len(mimetype.v) = 1 /\ mimetype.v[1] \in DOMAIN ExtMap
    THEN ExtMap[mimetype.v[1]] ELSE <<>>

MsgFilesBase == <<"https://history.futureofcoding.org/history/msg_files/">>

\* the extension cut at the first "." of the filename, not the last
FileExt_FirstDot(filename, mimetype) ==
    IF filename # <<>> /\ Contains(filename, ".")
    THEN From(filename, Find(filename, "."))
    ELSE IF Truthy(mimetype) THEN ExtMapGet(mimetype)
    ELSE <<>>

\* lines 103-118: the extension, for filename a str
FileExt(filename, mimetype) ==
    IF filename # <<>> /\ Contains(filename, ".")
    THEN From(filename, RFind(filename, "."))
    ELSE IF Truthy(mimetype) THEN ExtMapGet(mimetype)
    ELSE <<>>

\* format_file_url with a shard of two characters
format_file_url_Shard2(file_id, filename, mimetype) ==
    IF ~IsStr(file_id) \/ ~IsStr(filename)
    THEN [ok |-> FALSE, response |-> <<>>, err |-> <<>>, exc |-> "TypeError"]
    ELSE [ok |-> TRUE,
          response |-> Str(<<"https://history.futureofcoding.org/history/msg_files/">>
                             \o Prefix(file_id.v, 2) \o <<"/">> \o file_id.v
                             \o (IF filename.v # <<>> /\ Contains(filename.v, ".")
                                 THEN From(filename.v, RFind(filename.v, "."))
                                 ELSE IF Truthy(mimetype) /\ IsStr(mimetype)
                                         /\ Len(mimetype.v) = 1
                                         /\ mimetype.v[1] \in DOMAIN ExtMap
                                 THEN ExtMap[mimetype.v[1]] ELSE <<>>)),
          err |-> <<>>, exc |-> "none"]

\* format_file_url: file_id and filename are text, or a non-zero int that the
\* `or ""` of format_file let through, on which slicing and `in` raise
format_file_url(file_id, filename, mimetype) ==
    LET prefix == IF Truthy(file_id) THEN Prefix(file_id.v, 3) ELSE <<>>
        ext    == FileExt(filename.v, mimetype)
        full_filename == file_id.v \o ext
    IN  IF ~IsStr(file_id) \/ ~IsStr(filename)
        THEN Raise("TypeError", <<>>)
        ELSE Return(Str(MsgFilesBase \o prefix \o <<"/">> \o full_filename), <<>>)

\* format_file with the label taken from name before title
Foc_format_file_NameFirst(h, b, v) ==
    IF ~IsDict(b) THEN Raise("AttributeError", <<>>)
    ELSE
    LET url == format_file_url(Or(Get(b, "id"), Str(<<>>)),
                               Or(Or(Get(b, "name"), Get(b, "title")), Str(<<>>)),
                               GetDefault(b, "mimetype", Str(<<>>)))
    IN  IF ~url.ok THEN url
        ELSE Return([label |-> Or(Or(Get(b, "name"), Get(b, "title")),
                                  Str(<<"Untitled">>)),
                     url |-> url.response], <<>>)

Foc_format_file(h, b, v) ==
    IF ~IsDict(b) THEN Raise("AttributeError", <<>>)
    ELSE
    LET file_id  == Or(Get(b, "id"), Str(<<>>))
        filename == Or(Or(Get(b, "name"), Get(b, "title")), Str(<<>>))
        mimetype == GetDefault(b, "mimetype", Str(<<>>))
        url      == format_file_url(file_id, filename, mimetype)
        title    == Or(Or(Get(b, "title"), Get(b, "name")), Str(<<"Untitled">>))
        log == IF v
               THEN << <<"[format-file] title=">> \o Format(title)
                          \o <<", file_id=">> \o Format(file_id),
                       <<"[format-file] url=">> \o Format(url.response) >>
               ELSE <<>>
    IN  IF ~url.ok THEN url
        ELSE Return([label |-> title, url |-> url.response], log)

\* format_attachment trying from_url before original_url
format_attachment_FromFirst(h, b, v) ==
    IF ~IsDict(b) THEN Raise("AttributeError", <<>>)
    ELSE
    LET url   == Or(Or(Or(Or(Get(b, "from_url"), Get(b, "original_url")),
                          Get(b, "title_link")), Get(b, "url")), Str(<<>>))
        title == Or(Or(Or(Get(b, "title"), Get(b, "name")), Get(b, "fallback")),
                    Str(<<"Untitled">>))
    IN  IF v /\ ~Slice50Ok(url) THEN Raise("TypeError", <<>>)
        ELSE Return([label |-> title, url |-> url], <<>>)

\* format_attachment is the same text in both scripts
format_attachment(h, b, v) ==
    IF ~IsDict(b) THEN Raise("AttributeError", <<>>)
    ELSE
    LET url   == Or(Or(Or(Or(Get(b, "original_url"), Get(b, "from_url")),
                          Get(b, "title_link")), Get(b, "url")), Str(<<>>))
        title == Or(Or(Or(Get(b, "title"), Get(b, "name")), Get(b, "fallback")),
                    Str(<<"Untitled">>))
        log == << <<"[format-attachment] title=">> \o Format(title)
                     \o <<", url=">> \o Slice50(url) \o <<"...">> >>
    IN  IF v /\ ~Slice50Ok(url) THEN Raise("TypeError", <<>>)
        ELSE Return([label |-> title, url |-> url], IF v THEN log ELSE <<>>)

\* len(threads)
LenOk(x) == x.t \in {"str", "list", "dict"}

Foc_format_prefix(h, b, v) ==
    IF ~IsDict(b) THEN Raise("AttributeError", <<>>)
    ELSE
    LET threads == GetDefault(b, "threads", List(<<>>))
    IN  IF v /\ ~LenOk(threads) THEN Raise("TypeError", <<>>)
        ELSE Return([content |-> Str(<<>>)],
                    IF v THEN << <<"[prefix] Received threads">> >> ELSE <<>>)

SUFFIX == <<"\n----------\n...">>

Foc_format_suffix(h, b, v) ==
    IF ~IsDict(b) THEN Raise("AttributeError", <<>>)
    ELSE
    LET threads == GetDefault(b, "threads", List(<<>>))
    IN  IF v /\ ~LenOk(threads) THEN Raise("TypeError", <<>>)
        ELSE Return([content |-> Str(SUFFIX)],
                    IF v THEN << <<"[suffix] Received threads">> >> ELSE <<>>)

(* ---- scripts/format-links.py ---- *)

\* s.replace(".", "")
RECURSIVE RemoveDots(_)
RemoveDots(s) ==
    IF s = <<>> THEN <<>>
    ELSE IF Head(s) = "." THEN RemoveDots(Tail(s))
    ELSE <<Head(s)>> \o RemoveDots(Tail(s))

SlackBase == <<"https://app.slack.com/archives/">>

Plain_format_permalink(h, b, v) ==
    LET channel_id == GetDefault(h, "channel_id", Str(<<>>))
        message_ts == GetDefault(h, "message_ts", Str(<<>>))
        ts_for_url == RemoveDots(message_ts.v)
        url == SlackBase \o Format(channel_id) \o <<"/p">> \o ts_for_url
        log == << <<"[format-permalink] channel=">> \o Format(channel_id)
                     \o <<", ts=">> \o Format(message_ts) >>
    IN  \* message_ts.replace, for message_ts not a str
        IF ~IsStr(message_ts) THEN Raise("AttributeError", <<>>)
        ELSE Return([label |-> Str(<<"Conversation permalink">>), url |-> Str(url)],
                    IF v THEN log ELSE <<>>)

Plain_format_file(h, b, v) ==
    IF ~IsDict(b) THEN Raise("AttributeError", <<>>)
    ELSE
    LET url   == Or(Or(Or(Get(b, "url_private"), Get(b, "permalink")),
                       Get(b, "url")), Str(<<>>))
        title == Or(Or(Get(b, "title"), Get(b, "name")), Str(<<"Untitled file">>))
        log == << <<"[format-file] title=">> \o Format(title)
                     \o <<", url=">> \o Slice50(url) \o <<"...">> >>
    IN  IF v /\ ~Slice50Ok(url) THEN Raise("TypeError", <<>>)
        ELSE Return([label |-> title, url |-> url], IF v THEN log ELSE <<>>)

----------------------------------------------------------------------------
(* main(), one action per step *)

NotExited == 0 - 1

\* the characters json.loads skips around a document
JsonWhitespace == {" ", "\t", "\n", "\r"}

RECURSIVE SkipJsonWs(_)
SkipJsonWs(s) ==
    IF s # <<>> /\ Head(s) \in JsonWhitespace THEN SkipJsonWs(Tail(s)) ELSE s

\* json.loads(text): one document, JSON whitespace around it, nothing else
JsonLoadsOk(text) ==
    LET t == SkipJsonWs(text)
    IN  t # <<>> /\ Head(t) = "DOC" /\ SkipJsonWs(Tail(t)) = <<>>

ACT_PERMALINK  == Str(<<"format-permalink">>)
ACT_ATTACHMENT == Str(<<"format-attachment">>)
ACT_FILE       == Str(<<"format-file">>)
ACT_PREFIX     == Str(<<"prefix">>)
ACT_SUFFIX     == Str(<<"suffix">>)

\* the actions the if/elif chain of each script dispatches on
RecognizedActions(s) ==
    IF s = "foc"
    THEN {ACT_PERMALINK, ACT_ATTACHMENT, ACT_FILE, ACT_PREFIX, ACT_SUFFIX}
    ELSE {ACT_PERMALINK, ACT_ATTACHMENT, ACT_FILE}

\* the condition under which main() takes each of its steps
Guard ==
    [ReadStdin      |-> pc = "start",
     EmptyInput     |-> pc = "read" /\ Strip(input_data) = <<>>,
     JsonLoads      |-> pc = "read" /\ Strip(input_data) # <<>>,
     ReadRequest    |-> pc = "loaded",
     FocPermalink   |-> pc = "dispatch" /\ script = "foc" /\ action = ACT_PERMALINK,
     PlainPermalink |-> pc = "dispatch" /\ script = "plain" /\ action = ACT_PERMALINK,
     Attachment     |-> pc = "dispatch" /\ action = ACT_ATTACHMENT,
     FocFile        |-> pc = "dispatch" /\ script = "foc" /\ action = ACT_FILE,
     PlainFile      |-> pc = "dispatch" /\ script = "plain" /\ action = ACT_FILE,
     FocPrefix      |-> pc = "dispatch" /\ script = "foc" /\ action = ACT_PREFIX,
     FocSuffix      |-> pc = "dispatch" /\ script = "foc" /\ action = ACT_SUFFIX,
     UnknownAction  |-> pc = "dispatch" /\ action \notin RecognizedActions(script),
     WriteResponse  |-> pc = "respond",
     HandleJSONDecodeError |-> pc = "except" /\ exc = "JSONDecodeError",
     HandleException       |-> pc = "except" /\ exc # "JSONDecodeError"]

\* sys.exit(code), after printing `line` to stderr
ExitWith(code, line) ==
    /\ stderr' = Append(stderr, line)
    /\ status' = code
    /\ pc' = "exited"

\* input_data = sys.stdin.read()
ReadStdin ==
    /\ Guard.ReadStdin
    /\ input_data' = stdin
    /\ pc' = "read"
    /\ UNCHANGED <<script, verbose, stdin, doc, request, headers, body, action,
                   response, exc, stdout, stderr, status, called, loads>>

\* if not input_data.strip(): print("Error: Empty input"); sys.exit(1)
EmptyInput ==
    /\ Guard.EmptyInput
    /\ ExitWith(1, <<"Error: Empty input">>)
    /\ UNCHANGED <<script, verbose, stdin, doc, input_data, request, headers,
                   body, action, response, exc, stdout, called, loads>>

\* request = json.loads(input_data)
JsonLoads ==
    /\ Guard.JsonLoads
    /\ loads' = loads + 1
    /\ IF JsonLoadsOk(input_data)
       THEN /\ request' = doc
            /\ pc' = "loaded"
            /\ exc' = exc
       ELSE /\ exc' = "JSONDecodeError"
            /\ pc' = "except"
            /\ request' = request
    /\ UNCHANGED <<script, verbose, stdin, doc, input_data, headers, body,
                   action, response, stdout, stderr, status, called>>

\* headers = request.get("headers", {}); body = request.get("body", {});
\* action = headers.get("action", ""); the verbose line
ReadRequest ==
    /\ Guard.ReadRequest
    /\ LET hd == GetDefault(request, "headers", EmptyDict)
           bd == GetDefault(request, "body", EmptyDict)
           ac == GetDefault(hd, "action", Str(<<>>))
       IN  IF ~IsDict(request) \/ ~IsDict(hd)
           THEN /\ exc' = "AttributeError"
                /\ pc' = "except"
                /\ UNCHANGED <<headers, body, action, stderr>>
           ELSE /\ headers' = hd
                /\ body' = bd
                /\ action' = ac
                /\ stderr' = IF verbose
                             THEN Append(stderr, <<"[formatter] Action: ">> \o Format(ac))
                             ELSE stderr
                /\ pc' = "dispatch"
                /\ exc' = exc
    /\ UNCHANGED <<script, verbose, stdin, doc, input_data, request, response,
                   stdout, status, called, loads>>

\* response = f(headers, body, args.verbose), r its outcome
Invoke(name, r) ==
    /\ called' = Append(called, name)
    /\ stderr' = stderr \o r.err
    /\ IF r.ok
       THEN /\ response' = r.response
            /\ pc' = "respond"
            /\ exc' = exc
       ELSE /\ exc' = r.exc
            /\ pc' = "except"
            /\ response' = response
    /\ UNCHANGED <<script, verbose, stdin, doc, input_data, request, headers,
                   body, action, stdout, status, loads>>

FocPermalink ==
    /\ Guard.FocPermalink
    /\ Invoke("format_permalink", Foc_format_permalink(headers, body, verbose))

PlainPermalink ==
    /\ Guard.PlainPermalink
    /\ Invoke("format_permalink", Plain_format_permalink(headers, body, verbose))

Attachment ==
    /\ Guard.Attachment
    /\ Invoke("format_attachment", format_attachment(headers, body, verbose))

FocFile ==
    /\ Guard.FocFile
    /\ Invoke("format_file", Foc_format_file(headers, body, verbose))

PlainFile ==
    /\ Guard.PlainFile
    /\ Invoke("format_file", Plain_format_file(headers, body, verbose))

FocPrefix ==
    /\ Guard.FocPrefix
    /\ Invoke("format_prefix", Foc_format_prefix(headers, body, verbose))

FocSuffix ==
    /\ Guard.FocSuffix
    /\ Invoke("format_suffix", Foc_format_suffix(headers, body, verbose))

\* the unknown-action branch ending in sys.exit(0)
UnknownAction_ExitZero ==
    /\ Guard.UnknownAction
    /\ ExitWith(0, <<"Error: Unknown action '">> \o Format(action) \o <<"'">>)
    /\ UNCHANGED <<script, verbose, stdin, doc, input_data, request, headers,
                   body, action, response, exc, stdout, called, loads>>

\* else: print(f"Error: Unknown action '{action}'"); sys.exit(1)
UnknownAction ==
    /\ Guard.UnknownAction
    /\ ExitWith(1, <<"Error: Unknown action '">> \o Format(action) \o <<"'">>)
    /\ UNCHANGED <<script, verbose, stdin, doc, input_data, request, headers,
                   body, action, response, exc, stdout, called, loads>>

\* print(json.dumps(response)); sys.exit(0)
WriteResponse ==
    /\ Guard.WriteResponse
    /\ stdout' = Append(stdout, response)
    /\ status' = 0
    /\ pc' = "exited"
    /\ UNCHANGED <<script, verbose, stdin, doc, input_data, request, headers,
                   body, action, response, exc, stderr, called, loads>>

\* except json.JSONDecodeError as e
HandleJSONDecodeError ==
    /\ Guard.HandleJSONDecodeError
    /\ ExitWith(1, <<"Error: Invalid JSON input: ", exc>>)
    /\ UNCHANGED <<script, verbose, stdin, doc, input_data, request, headers,
                   body, action, response, exc, stdout, called, loads>>

\* the handler with file=sys.stderr left out of its print
HandleException_ToStdout ==
    /\ Guard.HandleException
    /\ stdout' = Append(stdout, [text |-> <<"Error: ", exc>>])
    /\ status' = 1
    /\ pc' = "exited"
    /\ UNCHANGED <<script, verbose, stdin, doc, input_data, request, headers,
                   body, action, response, exc, stderr, called, loads>>

\* except Exception as e
HandleException ==
    /\ Guard.HandleException
    /\ ExitWith(1, <<"Error: ", exc>>)
    /\ UNCHANGED <<script, verbose, stdin, doc, input_data, request, headers,
                   body, action, response, exc, stdout, called, loads>>

----------------------------------------------------------------------------
(* The runs: which script, --verbose or not, and what stdin holds.          *)
(* Field values are absent, null, text or an int.                           *)

MaxIdLen    == 4      \* file ids of 0..MaxIdLen characters
MaxStdinLen == 3      \* stdin of 0..MaxStdinLen tokens around the document
SweepFirstYear == 2000  \* message timestamps around each New Year of
SweepLastYear  == 2036  \* SweepFirstYear..SweepLastYear

Absent == [t |-> "absent", v |-> <<>>]

\* the dict with the keys of f whose value is not Absent
MkDict(f) == Dict([k \in {k \in DOMAIN f : f[k] # Absent} |-> f[k]])

\* the request {"headers": h, "body": b}
Req(h, b) == MkDict([headers |-> h, body |-> b])

\* message_ts texts: an integer part, with every sign and fraction
TsIntParts ==
    {
    <<"0">>, <<"5">>, <<"1", "7", "0", "4", "0", "6", "7", "2", "0", "0">>,
    <<"1", "7", "3", "6", "7", "6", "2", "7", "4", "1">>,
    <<"1", "6", "4", "0", "0", "0", "0", "0", "0", "0">>
    }
TsSigns == {<<>>, <<"-">>, <<"+">>}
TsFractions ==
    {
    <<>>, <<".">>, <<".", "5">>, <<".", "8", "1">>, <<".", "8", "1", "5">>,
    <<".", "8", "1", "5", "0", "0", "0">>,
    <<".", "1", "2", "3", "4", "5", "6">>,
    <<".", "0", "0", "0", "0", "0", "0">>
    }
\* message_ts texts that float() rejects, or accepts in another spelling,
\* the ends of the range of datetime, and the timestamps of run_tests
TsSpecial ==
    {
    <<>>, <<"a", "b", "c">>, <<"n", "a", "n">>, <<"i", "n", "f">>,
    <<"-", "i", "n", "f">>, <<" ", "1", "e", "9", " ">>, <<"1", "e", "9">>,
    <<"1", ".", "5", "e", "9">>, <<"1", "5", "e", "-", "1">>,
    <<"1", "_", "0", "0", "0">>, <<"1", ".", "2", ".", "3">>,
    <<"2", "5", "3", "4", "0", "2", "3", "0", "0", "7", "9", "9">>,
    <<"2", "5", "3", "4", "0", "2", "3", "0", "0", "8", "0", "0">>,
    <<"-", "6", "2", "1", "3", "5", "5", "9", "6", "8", "0", "0">>,
    <<"-", "6", "2", "1", "3", "5", "5", "9", "6", "8", "0", "1">>,
    <<"1", "6", "0", "9", "4", "5", "9", "2", "0", "0", ".", "0", "0", "0", "0", "0", "0">>,
    <<"1", "6", "7", "2", "5", "3", "1", "2", "0", "0", ".", "0", "0", "0", "0", "0", "0">>,
    <<"1", "7", "6", "8", "2", "9", "8", "7", "4", "1", ".", "8", "1", "5", "0", "0", "0">>,
    <<"1", "7", "0", "4", "0", "6", "7", "1", "9", "9", ".", "9", "9", "9", "9", "9", "9">>
    }
\* midnight and the last second of the days around each New Year
TsSweep ==
    {IntToStr((Ymd2Ord(y, 1, 1) - EpochOrdinal + k) * SecondsPerDay + tod)
         \o <<".", "0", "0", "0", "0", "0", "0">> :
       y \in SweepFirstYear..SweepLastYear, k \in (0 - 4)..3,
       tod \in {0, SecondsPerDay - 1}}

TsTexts ==
    {sg \o n \o fr : sg \in TsSigns, n \in TsIntParts, fr \in TsFractions}
        \cup TsSpecial

ChannelNames ==
    {Absent, None, Str(<<>>), Str(<<"general">>), Str(<<"share-your-work">>)}

PermalinkDocs ==
    {Req(MkDict([action |-> ACT_PERMALINK, channel_id |-> ci,
                 channel_name |-> cn, message_ts |-> ts]), EmptyDict) :
       ci \in {Absent, Str(<<"C123ABC">>)},
       cn \in ChannelNames,
       ts \in {Absent, None, Num(<<"1", "7", "0", "4", "0", "6", "7", "2", "0", "0">>)}
                \cup {Str(t) : t \in TsTexts}}
    \cup
    {Req(MkDict([action |-> ACT_PERMALINK, channel_name |-> Str(<<"general">>),
                 message_ts |-> Str(t)]), Absent) : t \in TsSweep}

FileIds ==
    {Absent, None, Num(<<"7">>)}
        \cup {Str(Prefix(<<"F", "0", "A", "S", "C", "M", "7", "9">>, n)) : n \in 0..MaxIdLen}
FileNames ==
    {Absent, None, Str(<<>>), Str(<<"a">>), Str(<<"x", ".", "p", "n", "g">>),
     Str(<<"a", ".", "b", ".", "g", "z">>), Str(<<".">>), Str(<<"x", ".">>)}
FileTitles ==
    {Absent, Str(<<>>), Str(<<"T">>), Str(<<"t", ".", "m", "o", "v">>), Num(<<"7">>)}
Mimetypes ==
    {Absent, None, Str(<<>>), Str(<<"text/plain">>), Num(<<"7">>)}
        \cup {Str(<<m>>) : m \in DOMAIN ExtMap}

FocFileDocs ==
    {Req(MkDict([action |-> ACT_FILE, channel_name |-> Str(<<"general">>)]),
         MkDict([id |-> i, name |-> n, title |-> t, mimetype |-> m])) :
       i \in FileIds, n \in FileNames, t \in FileTitles,
       m \in {Absent, Str(<<>>), Str(<<"video/mp4">>), Num(<<"7">>)}}
    \cup
    {Req(MkDict([action |-> ACT_FILE]),
         MkDict([id |-> Str(<<"F", "0", "A", "S">>), name |-> n, title |-> t,
                 mimetype |-> m])) :
       n \in FileNames, t \in FileTitles, m \in Mimetypes}

UrlValues(u) == {Absent, Str(<<>>), Str(u)}

PlainFileDocs ==
    {Req(MkDict([action |-> ACT_FILE]),
         MkDict([url_private |-> a, permalink |-> b, url |-> c,
                 title |-> t, name |-> n, id |-> Str(<<"F", "0", "A">>)])) :
       a \in UrlValues(<<"u", "p">>) \cup {None},
       b \in UrlValues(<<"p", "l">>),
       c \in UrlValues(<<"u">>) \cup {Num(<<"7">>)},
       t \in {Absent, Str(<<>>), Str(<<"T">>)},
       n \in {Absent, Str(<<>>), Str(<<"n">>)}}

AttachmentDocs ==
    {Req(MkDict([action |-> ACT_ATTACHMENT, channel_id |-> Str(<<"C123">>)]),
         MkDict([original_url |-> a, from_url |-> b, title_link |-> c, url |-> d,
                 title |-> t, name |-> n, fallback |-> f])) :
       a \in UrlValues(<<"o">>), b \in {Absent, Str(<<"f">>)},
       c \in {None, Str(<<>>), Str(<<"t">>)},
       d \in {Absent, Str(<<"u">>), Num(<<"7">>)},
       t \in UrlValues(<<"T">>), n \in {None, Str(<<"N">>)},
       f \in {Absent, Str(<<"F">>)}}

WrapDocs ==
    {Req(MkDict([action |-> a, channel_name |-> cn]), b) :
       a \in {ACT_PREFIX, ACT_SUFFIX},
       cn \in {Absent, Str(<<"general">>)},
       b \in {Absent, None, List(<<>>), EmptyDict}
               \cup {MkDict([threads |-> th, title |-> Str(<<"T">>)]) :
                       th \in {Absent, None, Num(<<"7">>), List(<<>>),
                               List(<<"t1", "t2">>), Str(<<"x">>)}}}

\* requests that are not an object, lack headers or an action, or name no
\* formatter
OddDocs ==
    {None, List(<<>>), Num(<<"7">>), Str(<<"x">>), EmptyDict}
        \cup {Req(h, b) :
                h \in {None, List(<<>>), Str(<<"x">>), EmptyDict}
                        \cup {MkDict([action |-> a, message_ts |-> Str(<<"5">>)]) :
                                a \in {Absent, None, Num(<<"7">>), Str(<<>>),
                                       Str(<<"bogus">>), Str(<<"format-Permalink">>),
                                       Str(<<"prefix ">>)}},
                b \in {Absent, None, EmptyDict}}
        \cup {Req(MkDict([action |-> a]), b) :
                a \in {ACT_ATTACHMENT, ACT_FILE}, b \in {Absent, None, List(<<>>)}}

Docs == PermalinkDocs \cup FocFileDocs \cup PlainFileDocs \cup AttachmentDocs
            \cup WrapDocs \cup OddDocs

\* documents placed among other stdin tokens
FewDocs ==
    {List(<<>>),
     Req(MkDict([action |-> Str(<<"bogus">>)]), EmptyDict),
     Req(MkDict([action |-> ACT_ATTACHMENT]), MkDict([url |-> Str(<<"u">>)]))}

StdinTokens == {" ", "\n", "VT", "JUNK", "DOC"}

RECURSIVE TokenSeqs(_)
TokenSeqs(n) ==
    IF n = 0 THEN {<<>>}
    ELSE LET shorter == TokenSeqs(n - 1)
         IN  shorter \cup {Append(q, tok) : q \in shorter, tok \in StdinTokens}

Init ==
    /\ script \in {"foc", "plain"}
    /\ verbose \in BOOLEAN
    /\ \/ stdin = <<"DOC">> /\ doc \in Docs
       \/ stdin \in TokenSeqs(MaxStdinLen) /\ doc \in FewDocs
    /\ pc = "start"
    /\ input_data = <<>>
    /\ request = None
    /\ headers = None
    /\ body = None
    /\ action = None
    /\ response = <<>>
    /\ exc = "none"
    /\ stdout = <<>>
    /\ stderr = <<>>
    /\ status = NotExited
    /\ called = <<>>
    /\ loads = 0

Next ==
    \/ ReadStdin
    \/ EmptyInput
    \/ JsonLoads
    \/ ReadRequest
    \/ FocPermalink
    \/ PlainPermalink
    \/ Attachment
    \/ FocFile
    \/ PlainFile
    \/ FocPrefix
    \/ FocSuffix
    \/ UnknownAction
    \/ WriteResponse
    \/ HandleJSONDecodeError
    \/ HandleException

Spec == Init /\ [][Next]_vars

\* the handlers always run: main() is sequential code
FairSpec == Spec /\ WF_vars(Next)

----------------------------------------------------------------------------
(* Properties *)

Exited == pc = "exited"

\* a JSON response: {"label", "url"} or {"content"}
IsResponse(r) == DOMAIN r = {"label", "url"} \/ DOMAIN r = {"content"}

\* what has been written when the process has ended: one response on stdout
\* exactly when the status is 0; otherwise nothing on stdout and a non-empty
\* last line on stderr
ExitContract ==
    /\ ~Exited => status = NotExited /\ stdout = <<>>
    /\ Exited =>
         /\ status \in {0, 1}
         /\ status = 0 <=> (Len(stdout) = 1 /\ IsResponse(stdout[1]))
         /\ status # 0 =>
              /\ stdout = <<>>
              /\ stderr # <<>>
              /\ stderr[Len(stderr)] # <<>>

\* some step of main() can be taken
CanStep == \E a \in DOMAIN Guard : Guard[a]

\* how far main() has got: every step moves it forward
PcRank(p) ==
    CASE p = "start"    -> 0
      [] p = "read"     -> 1
      [] p = "loaded"   -> 2
      [] p = "dispatch" -> 3
      [] p = "respond"  -> 4
      [] p = "except"   -> 4
      [] p = "exited"   -> 5

\* C1: every run of main ends (a step is always possible until the process
\* has exited, and each step moves main forward), with a JSON response on
\* stdout if and only if the exit status is 0; a run that ends with another
\* status has written nothing to stdout and a non-empty diagnostic to stderr.
C1_ExitStatusMatchesOutput ==
    /\ [](ExitContract /\ (Exited \/ CanStep))
    /\ [][PcRank(pc') > PcRank(pc)]_vars

\* a run that failed on an exception raised inside a formatter
C1_Witness ==
    /\ Exited /\ status = 1 /\ called # <<>> /\ stdout = <<>>
    /\ stderr[Len(stderr)] = <<"Error: ", "TypeError">>

\* the run took stdin as one JSON object whose headers are an object
WellFormedRequest ==
    /\ JsonLoadsOk(stdin)
    /\ IsDict(doc)
    /\ IsDict(GetDefault(doc, "headers", EmptyDict))

\* key k of dict d is missing, null or text
TextOrMissing(d, k) == k \notin DOMAIN d.v \/ d.v[k].t \in {"str", "null"}

\* the text of the first key of keys that d holds with non-empty text, or
\* default when there is none
FirstNonEmpty(d, keys, default) ==
    LET set == {i \in 1..Len(keys) :
                  /\ keys[i] \in DOMAIN d.v
                  /\ d.v[keys[i]].t = "str"
                  /\ d.v[keys[i]].v # <<>>}
    IN  IF set = {} THEN default
        ELSE d.v[keys[CHOOSE i \in set : \A j \in set : i <= j]].v

\* C2: when headers.action is none of the recognized values of the script that
\* runs (five in the archive script, three in the plain one; a missing action
\* key included), no formatter is invoked, nothing is written to stdout, and
\* the run ends with a non-zero status and a non-empty diagnostic on stderr.
C2_UnknownActionFails ==
    LET known == IF script = "foc"
                 THEN {<<"format-permalink">>, <<"format-attachment">>,
                       <<"format-file">>, <<"prefix">>, <<"suffix">>}
                 ELSE {<<"format-permalink">>, <<"format-attachment">>,
                       <<"format-file">>}
        hd    == GetDefault(doc, "headers", EmptyDict)
        unknown == \/ "action" \notin DOMAIN hd.v
                   \/ hd.v["action"].t # "str"
                   \/ hd.v["action"].v \notin known
    IN  (WellFormedRequest /\ unknown) =>
            /\ called = <<>>
            /\ stdout = <<>>
            /\ pc \notin {"respond", "except"}
            /\ Exited => status # 0 /\ stderr # <<>> /\ stderr[Len(stderr)] # <<>>

\* the plain script has ended on action "prefix", which only the archive
\* script knows
C2_Witness ==
    /\ Exited /\ script = "plain" /\ action = ACT_PREFIX
    /\ status = 1 /\ called = <<>>

\* C3: when stdin is empty or holds only whitespace, main ends with a failure
\* status and json.loads is never called: the run goes from the emptiness
\* check straight to the exit.
C3_EmptyInputBeforeParse ==
    (\A i \in 1..Len(stdin) : stdin[i] \in {" ", "\t", "\n", "\r", "VT"}) =>
        /\ loads = 0
        /\ pc \in {"start", "read", "exited"}
        /\ pc = "read" => Guard.EmptyInput
        /\ Exited => status = 1 /\ stdout = <<>>
                       /\ stderr = << <<"Error: Empty input">> >>

\* a run on whitespace that is not JSON whitespace has ended
C3_Witness ==
    /\ Exited /\ status = 1 /\ loads = 0
    /\ Len(stdin) > 1 /\ \E i \in 1..Len(stdin) : stdin[i] = "VT"

\* the archive script has called format_permalink; it is the only call made
FocPermalinkCalled == script = "foc" /\ called = <<"format_permalink">>

\* the year in which day `ordinal` falls, and its month in that year
CivilYear(ordinal) ==
    CHOOSE y \in (ordinal \div 366)..((ordinal \div 365) + 1) :
        Ymd2Ord(y, 1, 1) <= ordinal /\ ordinal < Ymd2Ord(y + 1, 1, 1)
CivilMonth(ordinal) ==
    LET y == CivilYear(ordinal)
    IN  CHOOSE m \in 1..12 :
            /\ Ymd2Ord(y, m, 1) <= ordinal
            /\ ordinal < Ymd2Ord(y, m, 1) + DaysInMonth(y, m)

\* ISO 8601: weeks start on Monday and belong to the year of their Thursday;
\* the week number counts the Thursdays of that year
IsoWeekOf(ordinal) ==
    LET weekday  == (ordinal + 6) % 7          \* Monday is 0
        thursday == ordinal - weekday + 3
    IN  ((thursday - Ymd2Ord(CivilYear(thursday), 1, 1)) \div 7) + 1

\* the url of an archive permalink up to its anchor
WeeklyUrl(y, mm, w, channel) ==
    WeeklyBase \o y \o <<"/">> \o mm \o <<"/", "W">> \o w \o <<"/">>
        \o channel \o <<".html", "#">>

StartsWith(s, p) == Len(s) >= Len(p) /\ SubSeq(s, 1, Len(p)) = p

\* C4: an archive format-permalink request whose message_ts parses (text at
\* microsecond resolution, channel_name text or absent) succeeds with the
\* fixed label and the url weekly/{Y}/{MM}/W{w}/{channel}.html#..., Y and the
\* two-digit MM the UTC year and month of the timestamp, w the unpadded ISO
\* week number (1..53) of that date even when the week belongs to the adjacent
\* year (2021-01-01 is W53, 2023-01-01 is W52, 2024-01-01 is W1), channel the
\* channel_name unchanged, or "general" when it is absent.
C4_ArchivePermalinkUrl ==
    LET ms == GetDefault(headers, "message_ts", Str(<<>>))
        dt == ts_to_datetime(ms)
        ordinal == dt.days + EpochOrdinal
        channel == IF "channel_name" \in DOMAIN headers.v
                   THEN headers.v["channel_name"].v ELSE <<"general">>
        w == IsoWeekOf(ordinal)
        fixed(y, mm, ww) ==
            StartsWith(response.url.v, WeeklyUrl(y, mm, ww, channel))
    IN  (/\ FocPermalinkCalled
         /\ IsStr(ms) /\ dt.ok
         /\ "channel_name" \in DOMAIN headers.v => IsStr(headers.v["channel_name"]))
        =>
        /\ pc \in {"respond", "exited"}
        /\ Exited => status = 0 /\ stdout = <<response>>
        /\ response.label = Str(PermalinkLabel)
        /\ response.url.t = "str"
        /\ w \in 1..53
        /\ StartsWith(response.url.v,
                      WeeklyUrl(IntToStr(CivilYear(ordinal)),
                                Pad2(CivilMonth(ordinal)), IntToStr(w), channel))
        /\ ms.v = <<"1", "6", "0", "9", "4", "5", "9", "2", "0", "0", ".", "0", "0", "0", "0", "0", "0">>
             => fixed(<<"2", "0", "2", "1">>, <<"0", "1">>, <<"5", "3">>)
        /\ ms.v = <<"1", "6", "7", "2", "5", "3", "1", "2", "0", "0", ".", "0", "0", "0", "0", "0", "0">>
             => fixed(<<"2", "0", "2", "3">>, <<"0", "1">>, <<"5", "2">>)
        /\ ms.v = <<"1", "7", "0", "4", "0", "6", "7", "2", "0", "0", ".", "0", "0", "0", "0", "0", "0">>
             => fixed(<<"2", "0", "2", "4">>, <<"0", "1">>, <<"1">>)

\* the response for 2021-01-01, a day of ISO week 53 of 2020, on a channel
\* given in the headers
C4_Witness ==
    /\ FocPermalinkCalled /\ Exited /\ status = 0
    /\ headers.v["message_ts"].v = <<"1", "6", "0", "9", "4", "5", "9", "2", "0", "0", ".", "0", "0", "0", "0", "0", "0">>
    /\ "channel_name" \in DOMAIN headers.v
    /\ StartsWith(stdout[1].url.v,
                  WeeklyUrl(<<"2", "0", "2", "1">>, <<"0", "1">>, <<"5", "3">>,
                            <<"share-your-work">>))

\* the part of an archive permalink url after its "#"
Anchor(url) == From(url, Find(url, "#") + 1)

\* C5: for every timestamp text the archive permalink formatter accepts, the
\* anchor is YYYY-MM-DDTHH:MM:SS.mmmZ with mmm exactly three digits: the
\* first three digits after the decimal point of message_ts, or 000 when it
\* has no decimal point.
C5_AnchorMillis ==
    LET ms == GetDefault(headers, "message_ts", Str(<<>>))
        anchor == Anchor(response.url.v)
        mmm == SubSeq(anchor, Len(anchor) - 3, Len(anchor) - 1)
        dot == CHOOSE i \in 1..Len(ms.v) : ms.v[i] = "."
    IN  (FocPermalinkCalled /\ pc = "respond" /\ IsStr(ms)) =>
            /\ anchor = Strftime(ts_to_datetime(ms)) \o <<".">> \o mmm \o <<"Z">>
            /\ Len(mmm) = 3 /\ AllDigits(mmm)
            /\ mmm = IF \E i \in 1..Len(ms.v) : ms.v[i] = "."
                     THEN SubSeq(ms.v, dot + 1, dot + 3)
                     ELSE <<"0", "0", "0">>

\* text that spells a non-negative decimal number: digits with at most one
\* ".", a "+" or surrounding blanks allowed, a "-" only before a zero value
NonNegativeDecimal(s) ==
    LET t    == SelectSeq(s, LAMBDA c : c \notin {" ", "\t", "\n", "\r"})
        sgn  == t # <<>> /\ t[1] \in {"+", "-"}
        u    == IF sgn THEN Tail(t) ELSE t
        digs == SelectSeq(u, LAMBDA c : c # ".")
    IN  /\ digs # <<>>
        /\ \A i \in 1..Len(digs) : digs[i] \in
               {"0", "1", "2", "3", "4", "5", "6", "7", "8", "9"}
        /\ Len(u) - Len(digs) <= 1
        /\ (sgn /\ t[1] = "-") => \A i \in 1..Len(digs) : digs[i] = "0"

\* C6: an archive format-permalink request fails (non-zero status, a
\* diagnostic on stderr, nothing on stdout) whenever message_ts is absent or
\* does not spell a non-negative decimal number: negative values and
\* non-decimal spellings are rejected, not turned into a url.
C6_RejectsNonDecimalTimestamp ==
    LET ms == GetDefault(headers, "message_ts", Str(<<>>))
    IN  (/\ FocPermalinkCalled
         /\ "message_ts" \notin DOMAIN headers.v
              \/ ~IsStr(ms) \/ ~NonNegativeDecimal(ms.v))
        =>
        /\ pc \in {"except", "exited"}
        /\ Exited => status # 0 /\ stdout = <<>> /\ stderr # <<>>

\* the archive script has called format_file on a file descriptor whose
\* fields are text, null or missing
FocFileCalled ==
    /\ script = "foc" /\ called = <<"format_file">>
    /\ IsDict(body)
    /\ \A k \in {"id", "name", "title", "mimetype"} : TextOrMissing(body, k)

\* the text of field k of the file descriptor, empty when missing or null
FieldText(k) ==
    IF k \in DOMAIN body.v /\ IsStr(body.v[k]) THEN body.v[k].v ELSE <<>>

\* the part of s from its last "."
FromLastDot(s) ==
    LET i == CHOOSE i \in 1..Len(s) :
                 s[i] = "." /\ \A j \in (i + 1)..Len(s) : s[j] # "."
    IN  SubSeq(s, i, Len(s))

\* the mimetype table of the specification
TableExt(m) ==
    CASE m = <<"video/mp4">>       -> <<".", "m", "p", "4">>
      [] m = <<"video/quicktime">> -> <<".", "m", "o", "v">>
      [] m = <<"image/png">>       -> <<".", "p", "n", "g">>
      [] m = <<"image/jpeg">>      -> <<".", "j", "p", "g">>
      [] m = <<"image/gif">>       -> <<".", "g", "i", "f">>
      [] m = <<"audio/mp3">>       -> <<".", "m", "p", "3">>
      [] m = <<"audio/mpeg">>      -> <<".", "m", "p", "3">>
      [] m = <<"application/pdf">> -> <<".", "p", "d", "f">>
      [] OTHER                     -> <<>>

\* the extension resolved from a file name and the mimetype
ResolvedExt(filename) ==
    IF \E i \in 1..Len(filename) : filename[i] = "."
    THEN FromLastDot(filename)
    ELSE TableExt(FieldText("mimetype"))

\* the shard of a file id: its first three characters, all of it when shorter
Shard(id) == IF Len(id) < 3 THEN id ELSE SubSeq(id, 1, 3)

\* what follows {shard}/{id} in the url of the response
UrlExt ==
    LET id == FieldText("id")
    IN  From(response.url.v, Len(MsgFilesBase) + Len(Shard(id)) + 1 + Len(id) + 1)

\* C7 as stated: the extension is resolved from `name` and then the mimetype
\* table alone; no other field, `title` included, influences it.
C7_ExtFromNameOnly ==
    (FocFileCalled /\ pc = "respond") => UrlExt = ResolvedExt(FieldText("name"))

\* C7: the extension is resolved from the file name, which is `name` or, when
\* `name` is missing or empty, `title`: the part from its last "." when it has
\* one, otherwise the mimetype table entry, otherwise nothing.
C7_ExtFromFilename ==
    (FocFileCalled /\ pc = "respond") =>
        UrlExt = ResolvedExt(IF FieldText("name") # <<>> THEN FieldText("name")
                             ELSE FieldText("title"))

\* a name with several dots has given the extension of its last part
C7_Witness ==
    /\ FocFileCalled /\ pc = "respond"
    /\ FieldText("name") = <<"a", ".", "b", ".", "g", "z">>
    /\ FieldText("mimetype") = <<"video/mp4">>
    /\ UrlExt = <<".", "g", "z">>

\* C8: for every file descriptor the archive file formatter succeeds with
\* url = msg_files/{shard}/{id}{ext}, shard the first 3 characters of id (all
\* of id when shorter), shard and id empty when id is missing or empty, which
\* is no error.
C8_FileUrl ==
    LET id == FieldText("id")
    IN  FocFileCalled =>
            /\ pc \in {"respond", "exited"}
            /\ Exited => status = 0 /\ stdout = <<response>>
            /\ response.url.t = "str"
            /\ StartsWith(response.url.v, MsgFilesBase \o Shard(id) \o <<"/">> \o id)
            /\ UrlExt \in {<<>>, ResolvedExt(FieldText("name")),
                           ResolvedExt(FieldText("title"))}

\* a descriptor without id has been formatted: shard and id are empty
C8_Witness ==
    /\ FocFileCalled /\ Exited /\ status = 0
    /\ "id" \notin DOMAIN body.v
    /\ stdout[1].url.v = MsgFilesBase \o <<"/">> \o <<".", "p", "n", "g">>

\* either script has called format_file on a descriptor whose title and name
\* are text, null or missing
FileLabelCase ==
    /\ called = <<"format_file">>
    /\ pc = "respond"
    /\ IsDict(body)
    /\ TextOrMissing(body, "title") /\ TextOrMissing(body, "name")

\* C9: the label of format_file is the first non-empty of title, name; when
\* both are missing or empty it is "Untitled" in the archive script and
\* "Untitled file" in the plain one.  No other field enters.
C9_FileLabel ==
    FileLabelCase =>
        response.label =
            Str(FirstNonEmpty(body, <<"title", "name">>,
                              IF script = "foc" THEN <<"Untitled">>
                              ELSE <<"Untitled file">>))

\* title and name both set: the archive script has taken the title
C9_Witness ==
    /\ FileLabelCase /\ script = "foc"
    /\ FieldText("title") # <<>> /\ FieldText("name") # <<>>
    /\ FieldText("title") # FieldText("name")
    /\ response.label = body.v["title"]

\* either script has called format_attachment on a descriptor whose fields
\* are text, null or missing
AttachmentCalled ==
    /\ called = <<"format_attachment">>
    /\ IsDict(body)
    /\ \A k \in {"original_url", "from_url", "title_link", "url",
                 "title", "name", "fallback"} : TextOrMissing(body, k)

\* C10: format_attachment, in both scripts, returns as url the first non-empty
\* of original_url, from_url, title_link, url, unchanged, or "" when none is
\* set, and as label the first non-empty of title, name, fallback, unchanged,
\* or "Untitled"; the headers do not enter.
C10_AttachmentIdentity ==
    AttachmentCalled =>
        /\ pc \in {"respond", "exited"}
        /\ Exited => status = 0 /\ stdout = <<response>>
        /\ response.url =
             Str(FirstNonEmpty(body, <<"original_url", "from_url", "title_link", "url">>,
                               <<>>))
        /\ response.label =
             Str(FirstNonEmpty(body, <<"title", "name", "fallback">>, <<"Untitled">>))

\* original_url and from_url both set: original_url has been returned
C10_Witness ==
    /\ AttachmentCalled /\ Exited /\ status = 0
    /\ FieldText("original_url") # <<>> /\ FieldText("from_url") # <<>>
    /\ stdout[1].url = body.v["original_url"]
    /\ stdout[1].label = Str(<<"Untitled">>)

----------------------------------------------------------------------------
(* the plain permalink *)

PlainPermalinkCalled == script = "plain" /\ called = <<"format_permalink">>

\* the header k as the f-string prints it: "" when the key is missing
HeaderText(k) ==
    IF k \in DOMAIN headers.v THEN Format(headers.v[k]) ELSE <<>>

\* s without its "." characters, the others in their order
WithoutDots(s) == SelectSeq(s, LAMBDA c : c # ".")

\* the response the plain permalink is to give for the headers
PlainPermalinkResponse ==
    [label |-> Str(<<"Conversation permalink">>),
     url   |-> Str(SlackBase \o HeaderText("channel_id") \o <<"/p">>
                     \o WithoutDots(HeaderText("message_ts")))]

\* C11: the plain format_permalink succeeds for every channel_id and every
\* message_ts value, absent and non-numeric ones included, with label
\* "Conversation permalink" and url = archives/{channel_id}/p{digits},
\* digits being message_ts without its "."
C11_PlainPermalinkTotal ==
    (PlainPermalinkCalled /\ Exited) =>
        /\ status = 0
        /\ stdout = <<PlainPermalinkResponse>>

\* C11 for a message_ts that is text or missing: what the code does keep
C11_PlainPermalinkText ==
    (/\ PlainPermalinkCalled /\ Exited
     /\ \/ "message_ts" \notin DOMAIN headers.v
        \/ IsStr(headers.v["message_ts"])) =>
        /\ status = 0
        /\ stdout = <<PlainPermalinkResponse>>

----------------------------------------------------------------------------
(* prefix and suffix *)

WrapperCalled(name) == script = "foc" /\ called = <<name>> /\ IsDict(body)

\* the only output of the run is the response {"content": text}
YieldsContent(text) ==
    /\ status = 0
    /\ stdout = <<[content |-> Str(text)]>>

\* C12: in the archive script every prefix request yields {"content": ""}
\* and every suffix request {"content": SUFFIX}, whatever the headers and
\* whatever the body holds: any threads value, or no threads key
C12_WrapperContentFixed ==
    /\ (WrapperCalled("format_prefix") /\ Exited) => YieldsContent(<<>>)
    /\ (WrapperCalled("format_suffix") /\ Exited) => YieldsContent(SUFFIX)

\* len(threads) is evaluated: the run is verbose
ThreadsMeasured == verbose

\* threads has a length, or is missing and defaults to []
ThreadsSized ==
    "threads" \in DOMAIN body.v => body.v["threads"].t \in {"str", "list", "dict"}

\* C12 for the runs that do not measure threads, or measure a sized one:
\* what the code does keep
C12_WrapperContentSized ==
    (ThreadsMeasured => ThreadsSized) => C12_WrapperContentFixed

----------------------------------------------------------------------------
(* --verbose *)

\* the if/elif chain of main(): the formatter the action selects, applied
Dispatch(s, ac, h, b, v) ==
    CASE ac = ACT_PERMALINK ->
             IF s = "foc" THEN Foc_format_permalink(h, b, v)
             ELSE Plain_format_permalink(h, b, v)
      [] ac = ACT_ATTACHMENT -> format_attachment(h, b, v)
      [] ac = ACT_FILE ->
             IF s = "foc" THEN Foc_format_file(h, b, v)
             ELSE Plain_format_file(h, b, v)
      [] ac = ACT_PREFIX -> Foc_format_prefix(h, b, v)
      [] ac = ACT_SUFFIX -> Foc_format_suffix(h, b, v)

\* what a run that fails leaves: nothing on stdout, exit status 1
Failure == [stdout |-> <<>>, status |-> 1]

\* main() run to its end as a function of the script s, the flag v and
\* stdin holding `text` with the document d: its stdout and exit status
main(s, v, text, d) ==
    IF Strip(text) = <<>> THEN Failure
    ELSE IF ~JsonLoadsOk(text) THEN Failure
    ELSE IF ~IsDict(d) THEN Failure
    ELSE
    LET hd == GetDefault(d, "headers", EmptyDict)
        bd == GetDefault(d, "body", EmptyDict)
    IN  IF ~IsDict(hd) THEN Failure
        ELSE
        LET ac == GetDefault(hd, "action", Str(<<>>))
        IN  IF ac \notin RecognizedActions(s) THEN Failure
            ELSE LET r == Dispatch(s, ac, hd, bd, v)
                 IN  IF r.ok THEN [stdout |-> <<r.response>>, status |-> 0]
                     ELSE Failure

\* the stdout and exit status of the run that has ended
Outcome == [stdout |-> stdout, status |-> status]

\* main() as a function agrees with the run taken step by step
MainIsTheRun == Exited => Outcome = main(script, verbose, stdin, doc)

\* C13: --verbose only adds stderr lines: the run of the same script on the
\* same stdin with the flag the other way has the same stdout and the same
\* exit status
C13_VerboseOnlyStderr ==
    Exited => Outcome = main(script, ~verbose, stdin, doc)

\* the values the verbose line of the formatter slices or measures are ones
\* that can be: the url fields are text, null or missing, threads is sized
LoggedValuesFit ==
    (pc = "exited" /\ called # <<>> /\ IsDict(body)) =>
        CASE called = <<"format_attachment">> ->
                 \A k \in {"original_url", "from_url", "title_link", "url"} :
                     TextOrMissing(body, k)
          [] called = <<"format_file">> /\ script = "plain" ->
                 \A k \in {"url_private", "permalink", "url"} :
                     TextOrMissing(body, k)
          [] called \in {<<"format_prefix">>, <<"format_suffix">>} -> ThreadsSized
          [] OTHER -> TRUE

\* C13 for the requests whose logged values fit: what the code does keep
C13_VerboseSameWhenFit == LoggedValuesFit => C13_VerboseOnlyStderr

====
